---- MODULE Spec2Model ----
(***************************************************************************)
(* Model of scripts/interleaved_btree_benchmark.py: the interleaved        *)
(* forward/reverse sampler (run_benchmark, interleaved_benchmark), the     *)
(* aggregator (aggregate_results), the ranking tables                      *)
(* (print_comparison_table, print_detailed_percentiles), the exports and   *)
(* main's control flow.                                                    *)
(*                                                                         *)
(* Numbers.  Latencies are integers.  statistics.median of an even number  *)
(* of integers is a half-integer, so a median is kept doubled (median_x2). *)
(* statistics.stdev is the square root of an exact fraction, so it is kept *)
(* as that fraction in lowest terms (stdev_sq = <<num, den>>).             *)
(*                                                                         *)
(* Dicts.  A Python dict is a sequence of [k, v] entries in insertion      *)
(* order, which is the order .items() iterates in.                         *)
(***************************************************************************)
EXTENDS Integers, Sequences, FiniteSets, TLC

\* ------------------------------------------------------------------ bounds

\* Most invocations of the external process a run is started for: main is
\* started with len(configs) * passes <= MaxInvocations (or with passes = 1).
MaxInvocations == 9

\* Longest result sequence handed directly to aggregate_results (SpecAgg).
MaxLen == 2

\* ------------------------------------------------------- program constants

Ops == <<"insert", "find", "erase">>
OpSet == {"insert", "find", "erase"}
Pcts == {"p0", "p50", "p95", "p99", "p99_9", "p99_99"}

\* The six tracked metrics, in the order main prints their tables.
MetricKeys ==
  << [op |-> "insert", pct |-> "p99_9"], [op |-> "insert", pct |-> "p50"],
     [op |-> "find",   pct |-> "p99_9"], [op |-> "find",   pct |-> "p50"],
     [op |-> "erase",  pct |-> "p99_9"], [op |-> "erase",  pct |-> "p50"] >>

\* The order in which aggregate_results reads the tracked fields
\* (all p99_9 comprehensions, then all p50 comprehensions).
ExtractOrder ==
  << [op |-> "insert", pct |-> "p99_9"], [op |-> "find", pct |-> "p99_9"],
     [op |-> "erase",  pct |-> "p99_9"], [op |-> "insert", pct |-> "p50"],
     [op |-> "find",   pct |-> "p50"],   [op |-> "erase", pct |-> "p50"] >>

\* The order in which print_detailed_percentiles reads the ladder.
LadderOrder == <<"p0", "p50", "p95", "p99", "p99_9", "p99_99">>

\* --------------------------------------------------------- sequence helpers

Range(s) == {s[i] : i \in 1..Len(s)}

\* list(reversed(s))
Reversed(s) == [i \in 1..Len(s) |-> s[Len(s) + 1 - i]]

RECURSIVE SumSeq(_)
SumSeq(s) == IF s = <<>> THEN 0 ELSE Head(s) + SumSeq(Tail(s))

RECURSIVE Gcd(_, _)
Gcd(a, b) == IF b = 0 THEN a ELSE Gcd(b, a % b)

SeqsUpTo(S, n) == UNION {[1..l -> S] : l \in 0..n}

\* ------------------------------------------------------------ dict helpers

Keys(d) == [i \in 1..Len(d) |-> d[i].k]

HasKey(d, key) == \E i \in 1..Len(d) : d[i].k = key

Lookup(d, key) == d[CHOOSE i \in 1..Len(d) : d[i].k = key].v

\* A results[config].insert(0, result) in place of the append.
DictAppend_Prepend(d, key, x) ==
  IF HasKey(d, key)
  THEN [i \in 1..Len(d) |->
          IF d[i].k = key THEN [k |-> key, v |-> <<x>> \o d[i].v] ELSE d[i]]
  ELSE Append(d, [k |-> key, v |-> <<x>>])

\* A results[config] = [result] in place of the append: a later invocation
\* of the same name replaces what the key held.
DictAppend_Assign(d, key, x) ==
  IF HasKey(d, key)
  THEN [i \in 1..Len(d) |-> IF d[i].k = key THEN [k |-> key, v |-> <<x>>] ELSE d[i]]
  ELSE Append(d, [k |-> key, v |-> <<x>>])

\* A plain dict read with results.get(config, []).append(result): the list
\* of a key seen for the first time is never stored.
DictAppend_GetDefault(d, key, x) ==
  IF HasKey(d, key)
  THEN [i \in 1..Len(d) |->
          IF d[i].k = key THEN [k |-> key, v |-> Append(d[i].v, x)] ELSE d[i]]
  ELSE d

\* defaultdict(list): results[config].append(result); a key seen for the
\* first time is inserted at the end.
DictAppend(d, key, x) ==
  IF HasKey(d, key)
  THEN [i \in 1..Len(d) |->
          IF d[i].k = key THEN [k |-> key, v |-> Append(d[i].v, x)] ELSE d[i]]
  ELSE Append(d, [k |-> key, v |-> <<x>>])

\* ------------------------------------------------ raw measurement documents

\* A raw measurement document is the parsed JSON object: a function from
\* "performance" to operations to percentile fields.  A key a document lacks
\* is a key outside the DOMAIN.
Ladder(lo, hi) ==
  [p0 |-> lo, p50 |-> lo, p95 |-> lo + hi, p99 |-> lo + 2 * hi,
   p99_9 |-> hi, p99_99 |-> 3 * hi + 1]

\* A well-formed document with insert p50 = v and insert p99_9 = w.
Doc(v, w) ==
  [performance |->
     [insert |-> Ladder(v, w), find |-> Ladder(w, v),
      erase  |-> Ladder(v + w, v + w + 1)]]

Restrict(f, S) == [x \in S |-> f[x]]

\* Valid JSON of the wrong shape: an operation is absent.
DocWithoutOp(d, op) ==
  [performance |-> Restrict(d.performance, DOMAIN d.performance \ {op})]

\* Valid JSON of the wrong shape: one percentile field of one operation is
\* absent.
DocWithoutField(d, op, pct) ==
  [performance |->
     [o \in DOMAIN d.performance |->
        IF o = op
        THEN Restrict(d.performance[o], DOMAIN d.performance[o] \ {pct})
        ELSE d.performance[o]]]

\* r["performance"][op][pct] raises KeyError exactly when this is FALSE.
HasField(r, op, pct) ==
  /\ "performance" \in DOMAIN r
  /\ op \in DOMAIN r.performance
  /\ pct \in DOMAIN r.performance[op]

\* The key the KeyError names.
MissingKeyOf(r, op, pct) ==
  IF "performance" \notin DOMAIN r THEN "performance"
  ELSE IF op \notin DOMAIN r.performance THEN op
  ELSE pct

GoodDocs == {Doc(0, 2), Doc(1, 1)}
BadDocs == {DocWithoutOp(Doc(1, 1), "find")}

\* The documents the external process prints in a run started through main.
Documents == GoodDocs \cup BadDocs

\* ------------------------------------------------------ external process

\* What one subprocess.run of the benchmark binary can come back with: an
\* exit code and the text on stdout.  The text is either a JSON text (json
\* |-> TRUE, with the value json.loads returns for it) or not.
NotJson == [json |-> FALSE]
JsonText(d) == [json |-> TRUE, value |-> d]

Outcomes ==
  {[returncode |-> 1, stdout |-> NotJson],
   [returncode |-> 1, stdout |-> JsonText(Doc(1, 1))],
   [returncode |-> 0, stdout |-> NotJson]}
    \cup {[returncode |-> 0, stdout |-> JsonText(d)] : d \in Documents}

\* A run_benchmark that forgets check=True: the exit code is never looked at.
run_benchmark_NoCheck(outcome) ==
  IF ~outcome.stdout.json
  THEN [ok |-> FALSE, error |-> "invalid_json"]
  ELSE [ok |-> TRUE, data |-> outcome.stdout.value]

\* A run_benchmark that swallows the JSONDecodeError and returns an empty
\* object.
run_benchmark_NoJsonCheck(outcome) ==
  IF outcome.returncode # 0
  THEN [ok |-> FALSE, error |-> "exit_code"]
  ELSE IF ~outcome.stdout.json
  THEN [ok |-> TRUE, data |-> [other |-> 0]]
  ELSE [ok |-> TRUE, data |-> outcome.stdout.value]

\* run_benchmark's result for an outcome: the parsed data, or the reason of
\* the sys.exit(1).
run_benchmark(outcome) ==
  IF outcome.returncode # 0
  THEN [ok |-> FALSE, error |-> "exit_code"]
  ELSE IF ~outcome.stdout.json
  THEN [ok |-> FALSE, error |-> "invalid_json"]
  ELSE [ok |-> TRUE, data |-> outcome.stdout.value]

\* ------------------------------------------------------------- statistics

RECURSIVE InsertSorted(_, _)
InsertSorted(x, s) ==
  IF s = <<>> THEN <<x>>
  ELSE IF x < Head(s) THEN <<x>> \o s
  ELSE <<Head(s)>> \o InsertSorted(x, Tail(s))

RECURSIVE SortedValues(_)
SortedValues(s) ==
  IF s = <<>> THEN <<>> ELSE InsertSorted(Head(s), SortedValues(Tail(s)))

\* statistics.median_low in place of statistics.median: for an even count
\* the lower of the two middle values.
median_x2_LowerMiddle(values) ==
  LET s == SortedValues(values)
      n == Len(s)
  IN  2 * s[(n + 1) \div 2]

\* 2 * statistics.median(values), values non-empty.
median_x2(values) ==
  LET s == SortedValues(values)
      n == Len(s)
  IN  IF n % 2 = 1 THEN 2 * s[(n + 1) \div 2]
      ELSE s[n \div 2] + s[n \div 2 + 1]

MinOf(values) == CHOOSE x \in Range(values) : \A y \in Range(values) : x <= y
MaxOf(values) == CHOOSE x \in Range(values) : \A y \in Range(values) : x >= y

Fraction(num, den) ==
  LET g == Gcd(num, den) IN IF g = 0 THEN <<0, 1>> ELSE <<num \div g, den \div g>>

\* statistics.pstdev in place of statistics.stdev: the divisor is n.
SampleVariance_Population(values) ==
  LET n == Len(values)
      T == SumSeq(values)
      ss_n2 == SumSeq([i \in 1..n |-> (n * values[i] - T) * (n * values[i] - T)])
  IN  Fraction(ss_n2, n * n * n)

\* statistics.stdev(values)^2 for Len(values) >= 2: the sum of the squared
\* deviations from the mean, over n - 1.  With T the total, the deviation of
\* x from the mean T/n is (n*x - T)/n.
SampleVariance(values) ==
  LET n == Len(values)
      T == SumSeq(values)
      ss_n2 == SumSeq([i \in 1..n |-> (n * values[i] - T) * (n * values[i] - T)])
  IN  Fraction(ss_n2, n * n * (n - 1))

\* stdev(values) if len(values) > 1 else 0, as the square of the result.
stdev_sq(values) ==
  IF Len(values) > 1 THEN SampleVariance(values) ELSE <<0, 1>>

\* The five per-metric entries of an aggregate record.
MetricStats(values) ==
  [median_x2 |-> median_x2(values), min |-> MinOf(values),
   max |-> MaxOf(values), stdev_sq |-> stdev_sq(values), values |-> values]

\* ------------------------------------------------------- aggregate_results

\* The first tracked field the extraction comprehensions fail on, as
\* <<index in ExtractOrder, index in pass_results>>; <<0, 0>> when none.
FirstMissing(pass_results) ==
  LET bad == {<<m, i>> \in (1..Len(ExtractOrder)) \X (1..Len(pass_results)) :
                ~HasField(pass_results[i], ExtractOrder[m].op, ExtractOrder[m].pct)}
  IN  IF bad = {} THEN <<0, 0>>
      ELSE CHOOSE b \in bad :
             \A c \in bad : b[1] < c[1] \/ (b[1] = c[1] /\ b[2] <= c[2])

ValuesOf(pass_results, m) ==
  [i \in 1..Len(pass_results) |-> pass_results[i].performance[m.op][m.pct]]

\* A median run taken at position (len - 1) // 2: the lower middle document
\* of an even number of passes.
AggregateRecord_LowerMiddleRun(pass_results) ==
  [passes |-> Len(pass_results),
   stats |-> [m \in Range(MetricKeys) |-> MetricStats(ValuesOf(pass_results, m))],
   median_run |-> pass_results[(Len(pass_results) - 1) \div 2 + 1].performance]

\* aggregated[config] for a non-empty pass_results with every tracked field.
AggregateRecord(pass_results) ==
  [passes |-> Len(pass_results),
   stats |-> [m \in Range(MetricKeys) |-> MetricStats(ValuesOf(pass_results, m))],
   median_run |-> pass_results[Len(pass_results) \div 2 + 1].performance]

\* A loop that leaves with break at the first empty sequence instead of going
\* on with continue.
RECURSIVE AggregateFrom_BreakOnEmpty(_, _, _)
AggregateFrom_BreakOnEmpty(results_, i, acc) ==
  IF i > Len(results_) THEN [ok |-> TRUE, aggregated |-> acc]
  ELSE LET config == results_[i].k
           pass_results == results_[i].v
           miss == FirstMissing(pass_results)
       IN  IF pass_results = <<>>
           THEN [ok |-> TRUE, aggregated |-> acc]
           ELSE IF miss # <<0, 0>>
           THEN [ok |-> FALSE, config |-> config,
                 key |-> MissingKeyOf(pass_results[miss[2]],
                                      ExtractOrder[miss[1]].op,
                                      ExtractOrder[miss[1]].pct)]
           ELSE AggregateFrom_BreakOnEmpty(results_, i + 1,
                  Append(acc, [k |-> config, v |-> AggregateRecord(pass_results)]))

\* The loop of aggregate_results over results.items(), from entry i on, with
\* the aggregated dict built so far.
RECURSIVE AggregateFrom(_, _, _)
AggregateFrom(results_, i, acc) ==
  IF i > Len(results_) THEN [ok |-> TRUE, aggregated |-> acc]
  ELSE LET config == results_[i].k
           pass_results == results_[i].v
           miss == FirstMissing(pass_results)
       IN  IF pass_results = <<>>
           THEN AggregateFrom(results_, i + 1, acc)
           ELSE IF miss # <<0, 0>>
           THEN [ok |-> FALSE, config |-> config,
                 key |-> MissingKeyOf(pass_results[miss[2]],
                                      ExtractOrder[miss[1]].op,
                                      ExtractOrder[miss[1]].pct)]
           ELSE AggregateFrom(results_, i + 1,
                  Append(acc, [k |-> config, v |-> AggregateRecord(pass_results)]))

aggregate_results(results_) == AggregateFrom(results_, 1, <<>>)

\* ------------------------------------------------------------------ ranking

\* An unstable sort: an entry goes before the entries with an equal key.
RECURSIVE InsertByMedian_Unstable(_, _, _)
InsertByMedian_Unstable(e, s, m) ==
  IF s = <<>> THEN <<e>>
  ELSE IF e.v.stats[m].median_x2 <= Head(s).v.stats[m].median_x2
  THEN <<e>> \o s
  ELSE <<Head(s)>> \o InsertByMedian_Unstable(e, Tail(s), m)

\* sorted(aggregated.items(), key=lambda x: x[1][median_key]): a stable sort,
\* an entry goes after the entries whose key is less than or equal to its own.
RECURSIVE InsertByMedian(_, _, _)
InsertByMedian(e, s, m) ==
  IF s = <<>> THEN <<e>>
  ELSE IF e.v.stats[m].median_x2 < Head(s).v.stats[m].median_x2
  THEN <<e>> \o s
  ELSE <<Head(s)>> \o InsertByMedian(e, Tail(s), m)

RECURSIVE SortedByMedian(_, _)
SortedByMedian(aggregated_, m) ==
  IF aggregated_ = <<>> THEN <<>>
  ELSE InsertByMedian(aggregated_[Len(aggregated_)],
                      SortedByMedian(SubSeq(aggregated_, 1, Len(aggregated_) - 1), m),
                      m)

\* a / b rounded to the nearest integer, halves to even (a >= 0, b > 0): the
\* digits "{:+.2f}" prints of a float that is exactly a / b.
RoundDiv(a, b) ==
  LET q == a \div b
      r == a % b
  IN  IF 2 * r > b \/ (2 * r = b /\ q % 2 = 1) THEN q + 1 ELSE q

\* a * b mod n for 0 <= a < n, by doubling, so that no product exceeds 2n.
RECURSIVE ModMul(_, _, _)
ModMul(a, b, n) ==
  IF b = 0 THEN 0 ELSE (ModMul((2 * a) % n, b \div 2, n) + (b % 2) * a) % n

RECURSIVE ModPow2(_, _)
ModPow2(k, n) == IF k = 0 THEN 1 % n ELSE (2 * ModPow2(k - 1, n)) % n

RECURSIVE Pow2(_)
Pow2(k) == IF k = 0 THEN 1 ELSE 2 * Pow2(k - 1)

\* The binary exponent e of the quotient D / B: 2^e <= D / B < 2^(e + 1).
RECURSIVE BinaryExponent(_, _)
BinaryExponent(D, B) ==
  IF D >= 2 * B THEN BinaryExponent(D \div 2, B) + 1
  ELSE IF D < B THEN BinaryExponent(2 * D, B) - 1
  ELSE 0

\* The sign of the error the two float operations of
\* ((median_val - baseline) / baseline) * 100 leave on the exact value
\* 100 * D / B, for D / B in lowest terms with B a multiple of 5 (the
\* subtraction is exact).  The division rounds D * 2^s / B to the 53-bit
\* integer M, s = 52 - e, with M * B = D * 2^s + rho; the multiplication
\* rounds 25 * M, of 57 or 58 bits, to a multiple of 2^k, k = 4 or 5, by
\* delta, halves to even.  The error is (25 * rho + delta * B) / B units of
\* the product's last place.
ProductError(D, B) ==
  LET e == BinaryExponent(D, B)
      s == 52 - e
      R == ModMul(D % B, ModPow2(s, B), B)
      rho == IF 2 * R < B THEN 0 - R ELSE B - R
      n == 64 * B
      M_mod64 == ((ModMul(D % n, ModPow2(s, n), n) + rho + n) % n) \div B
      lhs == IF e >= 0 THEN 25 * D ELSE 25 * D * Pow2(0 - e)
      rhs == IF e >= 0 THEN 32 * B * Pow2(e) ELSE 32 * B
      k == IF lhs > rhs \/ (lhs = rhs /\ rho >= 0) THEN 5 ELSE 4
      c == (25 * M_mod64) % Pow2(k)
      half == Pow2(k - 1)
      up == c > half \/ (c = half /\ ((25 * M_mod64) \div Pow2(k)) % 2 = 1)
      delta == IF up THEN Pow2(k) - c ELSE 0 - c
  IN  25 * rho + delta * B

\* diff_pct = ((median_val - baseline) / baseline) * 100 as "{:+.2f}" prints
\* it, in hundredths of a percent.  The float diff_pct is printed as the
\* nearest hundredth of its own value, so it rounds as the exact quotient
\* does unless that lies half way between two hundredths: then the float's
\* error decides, and halves go to even only when the float is exact.
DiffPctHundredths(median_val_x2, baseline_x2) ==
  LET D == median_val_x2 - baseline_x2
      a == D * 10000
      g == Gcd(D, baseline_x2)
      tie == /\ (2 * a) % baseline_x2 = 0
             /\ ((2 * a) \div baseline_x2) % 2 = 1
      err == IF tie /\ (baseline_x2 \div g) % 5 = 0
             THEN ProductError(D \div g, baseline_x2 \div g)
             ELSE 0
  IN  IF err > 0 THEN a \div baseline_x2 + 1
      ELSE IF err < 0 THEN a \div baseline_x2
      ELSE RoundDiv(a, baseline_x2)

\* A row that decides "baseline" by comparing medians instead of names: every
\* row whose median equals the baseline's is flagged.
ComparisonRow_ByMedian(e, winner, baseline_x2, m) ==
  [config |-> e.k,
   marker |-> (e.v.stats[m].median_x2 = baseline_x2),
   passes |-> e.v.passes,
   median_x2 |-> e.v.stats[m].median_x2,
   min |-> e.v.stats[m].min,
   max |-> e.v.stats[m].max,
   stdev_sq |-> e.v.stats[m].stdev_sq,
   diff_str |-> IF e.v.stats[m].median_x2 = baseline_x2 THEN "baseline" ELSE "pct",
   diff_hundredths |->
     IF e.v.stats[m].median_x2 = baseline_x2 THEN 0
     ELSE DiffPctHundredths(e.v.stats[m].median_x2, baseline_x2)]

\* One printed row of a comparison table.
ComparisonRow(e, winner, baseline_x2, m) ==
  [config |-> e.k,
   marker |-> (e.k = winner),
   passes |-> e.v.passes,
   median_x2 |-> e.v.stats[m].median_x2,
   min |-> e.v.stats[m].min,
   max |-> e.v.stats[m].max,
   stdev_sq |-> e.v.stats[m].stdev_sq,
   diff_str |-> IF e.k = winner THEN "baseline" ELSE "pct",
   diff_hundredths |->
     IF e.k = winner THEN 0
     ELSE DiffPctHundredths(e.v.stats[m].median_x2, baseline_x2)]

\* A print_comparison_table without the zero-baseline exit: the loop's own
\* fallback prints "N/A" for the rows that are not the winner.
print_comparison_table_NoZeroCheck(aggregated_, m) ==
  LET sorted_configs == SortedByMedian(aggregated_, m)
  IN  IF sorted_configs = <<>> THEN [status |-> "empty"]
      ELSE LET baseline == sorted_configs[1].v.stats[m].median_x2
               winner == sorted_configs[1].k
           IN  [status |-> "printed",
                table |->
                  [metric |-> m,
                   baseline_x2 |-> baseline,
                   winner |-> winner,
                   rows |-> [i \in 1..Len(sorted_configs) |->
                               IF baseline # 0
                               THEN ComparisonRow(sorted_configs[i], winner,
                                                  baseline, m)
                               ELSE [ComparisonRow(sorted_configs[i], winner, 1, m)
                                       EXCEPT !.diff_str =
                                                IF @ = "baseline" THEN @ ELSE "N/A",
                                              !.diff_hundredths = 0]]]]

\* print_comparison_table for metric m: "empty" (ERROR line, plain return),
\* "zero_baseline" (sys.exit(1) before the header) or the printed rows.
print_comparison_table(aggregated_, m) ==
  LET sorted_configs == SortedByMedian(aggregated_, m)
  IN  IF sorted_configs = <<>> THEN [status |-> "empty"]
      ELSE LET baseline == sorted_configs[1].v.stats[m].median_x2
               winner == sorted_configs[1].k
           IN  IF baseline = 0 THEN [status |-> "zero_baseline"]
               ELSE [status |-> "printed",
                     table |->
                       [metric |-> m,
                        baseline_x2 |-> baseline,
                        winner |-> winner,
                        rows |-> [i \in 1..Len(sorted_configs) |->
                                    ComparisonRow(sorted_configs[i], winner,
                                                  baseline, m)]]]

\* print_detailed_percentiles for an operation: sorted_configs[0] of an empty
\* list raises IndexError, a ladder field the median run lacks raises
\* KeyError; neither is caught.
print_detailed_percentiles(aggregated_, operation) ==
  LET sorted_configs ==
        SortedByMedian(aggregated_, [op |-> operation, pct |-> "p99_9"])
  IN  IF sorted_configs = <<>> THEN [status |-> "index_error"]
      ELSE LET median_run == sorted_configs[1].v.median_run[operation]
           IN  IF \E i \in 1..Len(LadderOrder) : LadderOrder[i] \notin DOMAIN median_run
               THEN [status |-> "key_error"]
               ELSE [status |-> "printed",
                     report |-> [operation |-> operation,
                                 config |-> sorted_configs[1].k,
                                 ladder |-> median_run]]

\* The statistic columns export_csv writes after "config" and "passes".
CsvColumns ==
  << [op |-> "insert", pct |-> "p99_9"], [op |-> "find", pct |-> "p99_9"],
     [op |-> "erase", pct |-> "p99_9"] >>

\* The data rows export_csv writes.
export_csv(aggregated_) ==
  LET sorted_configs ==
        SortedByMedian(aggregated_, [op |-> "insert", pct |-> "p99_9"])
  IN  [i \in 1..Len(sorted_configs) |->
         [config |-> sorted_configs[i].k,
          passes |-> sorted_configs[i].v.passes,
          columns |-> [c \in 1..Len(CsvColumns) |->
                         LET st == sorted_configs[i].v.stats[CsvColumns[c]]
                         IN  [median_x2 |-> st.median_x2, min |-> st.min,
                              max |-> st.max, stdev_sq |-> st.stdev_sq]]]]

\* ---------------------------------------------------------------- schedule

\* A schedule that never reverses.
Order_AlwaysForward(pass_num_, configs_) == configs_

\* A schedule whose even passes rotate the list by one instead of reversing
\* it.
Order_Rotated(pass_num_, configs_) ==
  IF pass_num_ % 2 = 1 THEN configs_
  ELSE [i \in 1..Len(configs_) |-> configs_[(i % Len(configs_)) + 1]]

\* The order of one pass: configs on odd passes, list(reversed(configs)) on
\* even ones.
Order(pass_num_, configs_) ==
  IF pass_num_ % 2 = 1 THEN configs_ ELSE Reversed(configs_)

\* ------------------------------------------------------------------- state

VARIABLES
  args,         \* args.configs, args.passes, and whether args.binary exists
  pc,           \* where main is
  pass_num,     \* interleaved_benchmark's pass_num
  pos,          \* 1-based position in the current pass's order
  inflight,     \* the subprocess.run calls that have not returned
  calls,        \* every subprocess.run issued so far, in order
  returned,     \* every subprocess.run that has returned, with its outcome
  results,      \* interleaved_benchmark's results dict
  aggregated,   \* aggregate_results' return value
  table_num,    \* print_comparison_table calls main has made
  tables,       \* the comparison tables printed so far
  detail_num,   \* print_detailed_percentiles calls main has made
  details,      \* the detailed-percentile reports printed so far
  csv_file,     \* the CSV file's data rows, <<>> while not written
  csv_written,
  json_file,    \* the JSON file's content, <<>> while not written
  json_written,
  exit_status,  \* -1 while running
  error         \* why the run stopped with a non-zero status

vars ==
  <<args, pc, pass_num, pos, inflight, calls, returned, results, aggregated,
    table_num, tables, detail_num, details, csv_file, csv_written, json_file,
    json_written, exit_status, error>>

\* The -c lists runs are started with.
ConfigLists ==
  {<<"A">>, <<"A", "B">>, <<"B", "A">>, <<"A", "B", "C">>, <<"A", "B", "A">>}

\* The (configs, passes) pairs runs are started with.
RunSizes ==
  {<<c, n>> \in ConfigLists \X (1..MaxInvocations) :
     n = 1 \/ Len(c) * n <= MaxInvocations}

Fresh ==
  /\ pass_num = 0
  /\ pos = 0
  /\ inflight = <<>>
  /\ calls = <<>>
  /\ returned = <<>>
  /\ aggregated = <<>>
  /\ table_num = 0
  /\ tables = <<>>
  /\ detail_num = 0
  /\ details = <<>>
  /\ csv_file = <<>>
  /\ csv_written = FALSE
  /\ json_file = <<>>
  /\ json_written = FALSE
  /\ exit_status = -1
  /\ error = "none"

\* main has parsed its arguments.
Init ==
  /\ \E b \in BOOLEAN, size \in RunSizes :
       args = [binary_exists |-> b, configs |-> size[1], passes |-> size[2]]
  /\ pc = "validate"
  /\ results = <<>>
  /\ Fresh

\* sys.exit(1), or an exception nothing catches.
Exit(why) ==
  /\ pc' = "exited"
  /\ exit_status' = 1
  /\ error' = why

\* A validation that lets a single pass through.
ValidationError_OffByOne(args_) ==
  IF ~args_.binary_exists THEN "binary_not_found"
  ELSE IF args_.passes < 1 THEN "too_few_passes"
  ELSE "none"

\* main's "Validate inputs" block: the reason of its sys.exit(1), "none" when
\* the run goes on.
ValidationError(args_) ==
  IF ~args_.binary_exists THEN "binary_not_found"
  ELSE IF args_.passes < 2 THEN "too_few_passes"
  ELSE "none"

\* main validates its inputs and enters interleaved_benchmark.
Validate ==
  /\ pc = "validate"
  /\ LET why == ValidationError(args)
     IN  IF why # "none"
         THEN /\ Exit(why)
              /\ UNCHANGED <<pass_num, pos>>
         ELSE /\ pc' = "sampling"
              /\ pass_num' = 1
              /\ pos' = 1
              /\ UNCHANGED <<exit_status, error>>
  /\ UNCHANGED <<args, inflight, calls, returned, results, aggregated,
                 table_num, tables, detail_num, details, csv_file,
                 csv_written, json_file, json_written>>

\* run_benchmark starts the external process for the next (pass, config).
Invoke ==
  /\ pc = "sampling"
  /\ inflight = <<>>
  /\ LET config == Order(pass_num, args.configs)[pos]
     IN  /\ inflight' = <<[pass_num |-> pass_num, config |-> config]>>
         /\ calls' = Append(calls, [pass_num |-> pass_num, config |-> config])
  /\ UNCHANGED <<args, pc, pass_num, pos, returned, results, aggregated,
                 table_num, tables, detail_num, details, csv_file,
                 csv_written, json_file, json_written, exit_status, error>>

\* The external process returns; run_benchmark parses its output and
\* interleaved_benchmark appends the result and moves on.
Complete ==
  /\ pc = "sampling"
  /\ inflight # <<>>
  /\ \E outcome \in Outcomes :
       LET config == inflight[1].config
           r == run_benchmark(outcome)
           last_config == pos = Len(args.configs)
           last_pass == pass_num = args.passes
       IN  /\ returned' = Append(returned,
                                 [pass_num |-> pass_num, config |-> config,
                                  outcome |-> outcome])
           /\ inflight' = <<>>
           /\ IF r.ok
              THEN /\ results' = DictAppend(results, config, r.data)
                   /\ pos' = IF last_config THEN 1 ELSE pos + 1
                   /\ pass_num' = IF last_config THEN pass_num + 1 ELSE pass_num
                   /\ pc' = IF last_config /\ last_pass THEN "aggregate" ELSE pc
                   /\ UNCHANGED <<exit_status, error>>
              ELSE /\ Exit(r.error)
                   /\ UNCHANGED <<results, pos, pass_num>>
  /\ UNCHANGED <<args, calls, aggregated, table_num, tables, detail_num,
                 details, csv_file, csv_written, json_file, json_written>>

\* aggregated = aggregate_results(results)
Aggregate ==
  /\ pc = "aggregate"
  /\ LET r == aggregate_results(results)
     IN  IF r.ok
         THEN /\ aggregated' = r.aggregated
              /\ pc' = "tables"
              /\ UNCHANGED <<exit_status, error>>
         ELSE /\ Exit("missing_key")
              /\ UNCHANGED aggregated
  /\ UNCHANGED <<args, pass_num, pos, inflight, calls, returned, results,
                 table_num, tables, detail_num, details, csv_file,
                 csv_written, json_file, json_written>>

\* The next of main's six print_comparison_table calls.
ComparisonTable ==
  /\ pc = "tables"
  /\ LET r == print_comparison_table(aggregated, MetricKeys[table_num + 1])
     IN  IF r.status = "zero_baseline"
         THEN /\ Exit("zero_baseline")
              /\ UNCHANGED <<table_num, tables>>
         ELSE /\ tables' = IF r.status = "printed" THEN Append(tables, r.table)
                           ELSE tables
              /\ table_num' = table_num + 1
              /\ pc' = IF table_num + 1 = Len(MetricKeys) THEN "details" ELSE pc
              /\ UNCHANGED <<exit_status, error>>
  /\ UNCHANGED <<args, pass_num, pos, inflight, calls, returned, results,
                 aggregated, detail_num, details, csv_file, csv_written,
                 json_file, json_written>>

\* The next of main's three print_detailed_percentiles calls.
DetailedPercentiles ==
  /\ pc = "details"
  /\ LET r == print_detailed_percentiles(aggregated, Ops[detail_num + 1])
     IN  IF r.status = "printed"
         THEN /\ details' = Append(details, r.report)
              /\ detail_num' = detail_num + 1
              /\ pc' = IF detail_num + 1 = Len(Ops) THEN "export_csv" ELSE pc
              /\ UNCHANGED <<exit_status, error>>
         ELSE /\ Exit(r.status)
              /\ UNCHANGED <<detail_num, details>>
  /\ UNCHANGED <<args, pass_num, pos, inflight, calls, returned, results,
                 aggregated, table_num, tables, csv_file, csv_written,
                 json_file, json_written>>

\* if args.csv: export_csv(aggregated, args.csv).  args.csv is read only
\* here, so whether --csv was given is drawn here.
ExportCsv ==
  /\ pc = "export_csv"
  /\ \E csv \in BOOLEAN :
       /\ csv_file' = IF csv THEN export_csv(aggregated) ELSE csv_file
       /\ csv_written' = csv
  /\ pc' = "export_json"
  /\ UNCHANGED <<args, pass_num, pos, inflight, calls, returned, results,
                 aggregated, table_num, tables, detail_num, details,
                 json_file, json_written, exit_status, error>>

\* if args.json: export_json(results, args.json); then main returns.
\* args.json is read only here, so whether --json was given is drawn here.
ExportJson ==
  /\ pc = "export_json"
  /\ \E json \in BOOLEAN :
       /\ json_file' = IF json THEN results ELSE json_file
       /\ json_written' = json
  /\ pc' = "done"
  /\ exit_status' = 0
  /\ UNCHANGED <<args, pass_num, pos, inflight, calls, returned, results,
                 aggregated, table_num, tables, detail_num, details,
                 csv_file, csv_written, error>>

Next ==
  \/ Validate
  \/ Invoke
  \/ Complete
  \/ Aggregate
  \/ ComparisonTable
  \/ DetailedPercentiles
  \/ ExportCsv
  \/ ExportJson

Spec == Init /\ [][Next]_vars

\* ----------------------------------------- the aggregator called directly

\* aggregate_results and the reports take any results mapping, also ones no
\* run of main produces (an empty sequence, sequences of different lengths).
\* SpecAgg starts main's steps at aggregation with such a mapping.

AggDocs == {Doc(0, 1), Doc(1, 0), Doc(1, 2), Doc(2, 1)}

DocSeq(vals) == [i \in 1..Len(vals) |-> Doc(vals[i], 1)]

\* The value sequences of the spec's worked examples, and two whose
\* deviation, 14.375%, lies half way between two printed hundredths.
InstanceSeqs ==
  {DocSeq(<<100, 100, 100, 400>>), DocSeq(<<100, 104>>), DocSeq(<<110, 108>>),
   DocSeq(<<80, 80>>), DocSeq(<<91, 92>>)}

MalformedDocs ==
  {DocWithoutOp(Doc(1, 2), "find"),
   DocWithoutField(Doc(1, 2), "erase", "p50"),
   DocWithoutField(Doc(1, 2), "insert", "p95"),
   [other |-> 0]}

\* Two passes of one configuration, one of them with a malformed document.
MalformedSeqs ==
  UNION {{<<Doc(1, 2), m>>, <<m, Doc(1, 2)>>} : m \in MalformedDocs}

AggSeqs == SeqsUpTo(AggDocs, MaxLen) \cup InstanceSeqs \cup MalformedSeqs

AggKeyLists == {<<>>, <<"A">>, <<"A", "B">>, <<"B", "A">>}

AggInputs ==
  UNION {{[i \in 1..Len(keys) |-> [k |-> keys[i], v |-> seqs[i]]] :
            seqs \in [1..Len(keys) -> AggSeqs]} : keys \in AggKeyLists}

InitAgg ==
  /\ results \in AggInputs
  /\ args = [binary_exists |-> TRUE, configs |-> Keys(results), passes |-> 0]
  /\ pc = "aggregate"
  /\ Fresh

NextAgg ==
  \/ Aggregate
  \/ ComparisonTable
  \/ DetailedPercentiles
  \/ ExportCsv
  \/ ExportJson

SpecAgg == InitAgg /\ [][NextAgg]_vars

\* ================================================================= claims

Distinct(s) == \A i, j \in 1..Len(s) : i # j => s[i] # s[j]

NumConfigs == Len(args.configs)

\* interleaved_benchmark has returned: every invocation of the schedule
\* succeeded.
SamplingReturned ==
  /\ pc \notin {"validate", "sampling"}
  /\ error \notin {"binary_not_found", "too_few_passes", "exit_code", "invalid_json"}

\* The i-th (pass, configuration) pair of the schedule the claims describe:
\* passes ascending, input order on odd passes, reverse order on even ones.
ScheduleEntry(i) ==
  LET p == (i - 1) \div NumConfigs + 1
      j == ((i - 1) % NumConfigs) + 1
  IN  [pass_num |-> p,
       config |-> IF p % 2 = 1 THEN args.configs[j]
                  ELSE args.configs[NumConfigs + 1 - j]]

CallsOf(c) == {i \in 1..Len(calls) : calls[i].config = c}

\* The documents stored in the result mapping, over all configurations.
StoredDocs == SumSeq([i \in 1..Len(results) |-> Len(results[i].v)])

NothingProduced ==
  /\ aggregated = <<>>
  /\ tables = <<>>
  /\ details = <<>>
  /\ ~csv_written
  /\ ~json_written

\* C1: the invocations issued so far are always a prefix of the schedule
\* (pass 1..N ascending, odd passes in input order, even passes in reverse
\* order); once every invocation has succeeded there are exactly N*k of
\* them and every one of k distinct configurations was invoked exactly once
\* per pass, N times in all.
C1_ScheduleOrder ==
  /\ \A i \in 1..Len(calls) : calls[i] = ScheduleEntry(i)
  /\ Len(calls) <= args.passes * NumConfigs
  /\ (SamplingReturned /\ Distinct(args.configs)) =>
       /\ Len(calls) = args.passes * NumConfigs
       /\ \A c \in Range(args.configs) :
            /\ Cardinality(CallsOf(c)) = args.passes
            /\ \A p \in 1..args.passes :
                 Cardinality({i \in CallsOf(c) : calls[i].pass_num = p}) = 1

\* A completed run of three distinct configurations over three passes: a
\* forward, a reverse and again a forward pass.
C1_Witness ==
  /\ SamplingReturned
  /\ Distinct(args.configs)
  /\ NumConfigs = 3
  /\ args.passes = 3
  /\ calls[4].config = args.configs[3]
  /\ calls[7].config = args.configs[1]

\* The document the external process printed for configuration c in pass p.
ProducedIn(p, c) ==
  LET i == CHOOSE n \in 1..Len(returned) :
             returned[n].pass_num = p /\ returned[n].config = c
  IN  returned[i].outcome.stdout.value

\* C2: when interleaved_benchmark has returned, the result sequence of
\* every one of the distinct configurations has length N and its i-th
\* element is the document that configuration's invocation produced in pass
\* i, in forward and in reverse passes alike.
C2_ResultSequences ==
  (SamplingReturned /\ Distinct(args.configs)) =>
    /\ Range(Keys(results)) = Range(args.configs)
    /\ \A c \in Range(args.configs) :
         /\ Len(Lookup(results, c)) = args.passes
         /\ \A i \in 1..args.passes : Lookup(results, c)[i] = ProducedIn(i, c)

\* A returned run in which the first configuration, visited last in pass 2,
\* got different documents in passes 1 and 2.
C2_Witness ==
  /\ pc = "aggregate"
  /\ Distinct(args.configs)
  /\ NumConfigs >= 2
  /\ Lookup(results, args.configs[1])[1] # Lookup(results, args.configs[1])[2]
  /\ Lookup(results, args.configs[2])[1] # Lookup(results, args.configs[2])[2]

\* C3: an invocation that exits non-zero is the last thing the run does: it
\* is the last invocation issued (no retry, no later pair of the schedule),
\* the run has stopped with status 1 for that reason, the result mapping
\* holds only the documents of the invocations before it, and no aggregate,
\* table, report or export exists.
C3_NonZeroExitAborts ==
  \A i \in 1..Len(returned) :
    returned[i].outcome.returncode # 0 =>
      /\ i = Len(returned)
      /\ Len(calls) = i
      /\ inflight = <<>>
      /\ pc = "exited"
      /\ exit_status = 1
      /\ error = "exit_code"
      /\ StoredDocs = i - 1
      /\ NothingProduced

\* A run stopped by a non-zero exit in its second pass.
C3_Witness ==
  /\ pc = "exited"
  /\ returned # <<>>
  /\ returned[Len(returned)].outcome.returncode # 0
  /\ returned[Len(returned)].pass_num = 2
  /\ StoredDocs >= 2

\* The output of a successful invocation has the shape of a raw measurement
\* document.
WellShaped(stdout) ==
  /\ stdout.json
  /\ \A op \in OpSet, pct \in Pcts : HasField(stdout.value, op, pct)

\* C4 as claimed: an invocation that exits zero with output that is not a
\* well-shaped document (valid JSON of the wrong shape included) is the last
\* invocation of the run, which stops there.
C4_Original_MalformedOutputAborts ==
  \A i \in 1..Len(returned) :
    (returned[i].outcome.returncode = 0 /\ ~WellShaped(returned[i].outcome.stdout)) =>
      /\ i = Len(returned)
      /\ Len(calls) = i
      /\ pc = "exited"
      /\ exit_status = 1

\* C4, amended: an invocation that exits zero with output that is not valid
\* JSON stops the run at that invocation, exactly as a non-zero exit does;
\* output that is valid JSON is accepted and stored whatever its shape, so
\* the result mapping holds one document per invocation that exited zero
\* with valid JSON.
C4_InvalidJsonAborts ==
  /\ \A i \in 1..Len(returned) :
       (returned[i].outcome.returncode = 0 /\ ~returned[i].outcome.stdout.json) =>
         /\ i = Len(returned)
         /\ Len(calls) = i
         /\ inflight = <<>>
         /\ pc = "exited"
         /\ exit_status = 1
         /\ error = "invalid_json"
         /\ StoredDocs = i - 1
         /\ NothingProduced
  /\ StoredDocs =
       Cardinality({i \in 1..Len(returned) :
                      /\ returned[i].outcome.returncode = 0
                      /\ returned[i].outcome.stdout.json})

\* A run stopped by unparsable output after it had stored a document of the
\* wrong shape and gone on.
C4_Witness ==
  /\ pc = "exited"
  /\ error = "invalid_json"
  /\ Len(returned) >= 3
  /\ ~returned[Len(returned)].outcome.stdout.json
  /\ \E i \in 1..(Len(returned) - 1) : ~WellShaped(returned[i].outcome.stdout)

\* The passes in which configuration c ran at 0-indexed position i of the
\* pass.
PassesAt(c, i) ==
  {p \in 1..args.passes :
     \E n \in 1..Len(calls) :
       /\ calls[n].pass_num = p
       /\ calls[n].config = c
       /\ (n - 1) % NumConfigs = i}

PositionSum(c) ==
  SumSeq([n \in 1..Len(calls) |->
            IF calls[n].config = c THEN (n - 1) % NumConfigs ELSE 0])

Mirrored ==
  \A c \in Range(args.configs), i \in 0..(NumConfigs - 1) :
    Cardinality(PassesAt(c, i)) = Cardinality(PassesAt(c, NumConfigs - 1 - i))

EqualPositionSums ==
  \A c, d \in Range(args.configs) : PositionSum(c) = PositionSum(d)

\* C5 as claimed: for any N >= 2 and k >= 2 distinct configurations, over
\* the completed schedule every configuration is visited at position i in as
\* many passes as at position k-1-i, and the sums of the positions are the
\* same for all configurations.
C5_Original_SymmetricPositions ==
  (SamplingReturned /\ Distinct(args.configs) /\ NumConfigs >= 2) =>
    (Mirrored /\ EqualPositionSums)

\* C5, amended: that symmetry holds for every even pass count N >= 2.  For an
\* odd N there is one forward pass more than reverse passes: a configuration
\* listed at position j is visited at j in (N+1)/2 passes and at k-1-j in
\* (N-1)/2 passes.
C5_SymmetricPositionsEvenN ==
  (SamplingReturned /\ Distinct(args.configs) /\ NumConfigs >= 2) =>
    /\ args.passes % 2 = 0 => (Mirrored /\ EqualPositionSums)
    /\ args.passes % 2 = 1 =>
         \A j \in 1..NumConfigs :
           2 * j # NumConfigs + 1 =>
             /\ Cardinality(PassesAt(args.configs[j], j - 1)) = (args.passes + 1) \div 2
             /\ Cardinality(PassesAt(args.configs[j], NumConfigs - j)) =
                  (args.passes - 1) \div 2

\* A completed run of three distinct configurations over two passes.
C5_Witness ==
  /\ SamplingReturned
  /\ Distinct(args.configs)
  /\ NumConfigs = 3
  /\ args.passes = 2
  /\ Cardinality(PassesAt(args.configs[1], 0)) = 1
  /\ Cardinality(PassesAt(args.configs[1], 2)) = 1

\* Some document of the result mapping lacks an expected operation or an
\* expected percentile field of an operation.
SomeFieldMissing ==
  \E i \in 1..Len(results) : \E n \in 1..Len(results[i].v) :
    \E op \in OpSet, pct \in Pcts : ~HasField(results[i].v[n], op, pct)

\* C6 as claimed: when a document lacks any expected operation or any of the
\* six percentile fields of an operation, aggregate_results stops the run
\* with the missing-key diagnostic and nothing is handed on to ranking or to
\* the detailed-percentile report.
C6_MissingFieldFailsAggregation ==
  (SomeFieldMissing /\ pc # "aggregate") =>
    /\ pc = "exited"
    /\ error = "missing_key"
    /\ aggregated = <<>>
    /\ tables = <<>>
    /\ details = <<>>

\* The position of a configuration's first occurrence in the caller's list.
InputIndex(c) == CHOOSE i \in 1..NumConfigs :
                   args.configs[i] = c /\ \A j \in 1..(i - 1) : args.configs[j] # c

\* The aggregate mapping a permuted configuration list yields from the same
\* measured values: the same entries in the permuted order.
Permuted(f) == [i \in 1..Len(aggregated) |-> aggregated[f[i]]]

\* C7: in every comparison table the rows are the aggregated configurations,
\* each once, in the one order fixed by (median, position in the caller's
\* list): medians never decrease down the table, equal medians stand in the
\* caller's order, and the first row, flagged as baseline, has the least
\* median of all aggregated configurations.  Ranking the same aggregates
\* given in any other order yields the same medians row by row and the same
\* configuration in every row whose median no other configuration shares.
C7_StableRanking ==
  \A t \in 1..Len(tables) :
    LET rows == tables[t].rows
        m == tables[t].metric
    IN  /\ Len(rows) = Len(aggregated)
        /\ {rows[i].config : i \in 1..Len(rows)} = Range(Keys(aggregated))
        /\ \A i \in 1..Len(rows) :
             rows[i].median_x2 = Lookup(aggregated, rows[i].config).stats[m].median_x2
        /\ \A i, j \in 1..Len(rows) :
             i < j =>
               \/ rows[i].median_x2 < rows[j].median_x2
               \/ /\ rows[i].median_x2 = rows[j].median_x2
                  /\ InputIndex(rows[i].config) < InputIndex(rows[j].config)
        /\ rows[1].marker
        /\ tables[t].baseline_x2 = rows[1].median_x2
        /\ \A i \in 1..Len(aggregated) :
             rows[1].median_x2 <= aggregated[i].v.stats[m].median_x2
        /\ \A f \in Permutations(1..Len(aggregated)) :
             LET ranked == SortedByMedian(Permuted(f), m)
             IN  \A i \in 1..Len(rows) :
                   /\ ranked[i].v.stats[m].median_x2 = rows[i].median_x2
                   /\ (\A j \in 1..Len(rows) :
                         j # i => rows[j].median_x2 # rows[i].median_x2)
                        => ranked[i].k = rows[i].config

\* A table of three configurations that the sort reordered and in which two
\* rows tie.
C7_Witness ==
  \E t \in 1..Len(tables) :
    LET rows == tables[t].rows
    IN  /\ Len(rows) = 3
        /\ rows[1].median_x2 = rows[2].median_x2
        /\ rows[2].median_x2 < rows[3].median_x2
        /\ rows[3].config = args.configs[1]
        /\ rows[1].config = args.configs[2]

\* The least median of a metric over the aggregated configurations.
LeastMedian_x2(m) ==
  CHOOSE x \in {aggregated[i].v.stats[m].median_x2 : i \in 1..Len(aggregated)} :
    \A i \in 1..Len(aggregated) : x <= aggregated[i].v.stats[m].median_x2

\* print_comparison_table has been called for the j-th metric.
Ranked(j) ==
  /\ aggregated # <<>>
  /\ table_num >= j \/ (pc = "exited" /\ table_num = j - 1)

\* C8: once ranking has been tried for a metric whose least median is zero,
\* the run has stopped there with status 1 and no row of that metric was
\* printed; and no printed table has a zero baseline or a row that is
\* neither the baseline nor a percentage.
C8_ZeroBaselineIsAnError ==
  /\ \A j \in 1..Len(MetricKeys) :
       (Ranked(j) /\ LeastMedian_x2(MetricKeys[j]) = 0) =>
         /\ pc = "exited"
         /\ exit_status = 1
         /\ error = "zero_baseline"
         /\ table_num = j - 1
         /\ \A t \in 1..Len(tables) : tables[t].metric # MetricKeys[j]
  /\ \A t \in 1..Len(tables) :
       /\ tables[t].baseline_x2 # 0
       /\ \A i \in 1..Len(tables[t].rows) :
            tables[t].rows[i].diff_str \in {"baseline", "pct"}

\* A run stopped by a zero baseline in its second table, the first one
\* printed, with a configuration of non-zero median behind the baseline.
C8_Witness ==
  /\ pc = "exited"
  /\ error = "zero_baseline"
  /\ table_num = 1
  /\ Len(tables) = 1
  /\ \E i \in 1..Len(aggregated) : aggregated[i].v.stats[MetricKeys[2]].median_x2 > 0

\* C9: a run whose binary does not exist or whose pass count is below 2
\* never invokes the external process and never creates a result sequence,
\* an aggregate or an export; past validation it has stopped with status 1.
C9_EnvironmentErrorBeforeInvocation ==
  (~args.binary_exists \/ args.passes < 2) =>
    /\ calls = <<>>
    /\ inflight = <<>>
    /\ results = <<>>
    /\ NothingProduced
    /\ pc \in {"validate", "exited"}
    /\ pc = "exited" =>
         /\ exit_status = 1
         /\ error = IF ~args.binary_exists THEN "binary_not_found"
                    ELSE "too_few_passes"

\* A run with an existing binary stopped for its pass count of 1.
C9_Witness ==
  /\ pc = "exited"
  /\ args.binary_exists
  /\ args.passes = 1
  /\ error = "too_few_passes"

\* The values of a metric over a configuration's result sequence, read from
\* the result mapping.
MetricValues(c, m) ==
  [i \in 1..Len(Lookup(results, c)) |->
     Lookup(results, c)[i].performance[m.op][m.pct]]

SumOfSquares(values) == SumSeq([i \in 1..Len(values) |-> values[i] * values[i]])

\* C10: for every aggregated configuration and tracked metric the standard
\* deviation is 0 for a single value and, for n >= 2 values, the sample
\* standard deviation: its square is (n*sum(x^2) - sum(x)^2) / (n*(n-1)).
\* For [100, 100, 100, 400] it is 150 (square 22500).
C10_SampleStdev ==
  \A e \in 1..Len(aggregated) : \A m \in Range(MetricKeys) :
    LET values == MetricValues(aggregated[e].k, m)
        n == Len(values)
        sd == aggregated[e].v.stats[m].stdev_sq
    IN  /\ n = 1 => sd = <<0, 1>>
        /\ n >= 2 =>
             /\ sd[2] > 0
             /\ sd[1] * n * (n - 1) =
                  sd[2] * (n * SumOfSquares(values) - SumSeq(values) * SumSeq(values))
        /\ values = <<100, 100, 100, 400>> => sd = <<150 * 150, 1>>

\* An aggregate of the four values next to an aggregate of a single value.
C10_Witness ==
  /\ Len(aggregated) = 2
  /\ aggregated[1].v.stats[MetricKeys[2]].values = <<100, 100, 100, 400>>
  /\ aggregated[1].v.stats[MetricKeys[2]].stdev_sq = <<22500, 1>>
  /\ aggregated[2].v.passes = 1
  /\ aggregated[2].v.stats[MetricKeys[2]].stdev_sq = <<0, 1>>

\* The k-th smallest of the values, counted with repetitions: fewer than k
\* values lie below it and at least k values do not exceed it.
KthSmallest(values, k) ==
  CHOOSE x \in Range(values) :
    /\ Cardinality({i \in 1..Len(values) : values[i] < x}) < k
    /\ Cardinality({i \in 1..Len(values) : values[i] <= x}) >= k

AbsDiff(a, b) == IF a >= b THEN a - b ELSE b - a

\* C11: for every aggregated configuration and tracked metric the retained
\* values are the metric's values in pass order, the median is the
\* statistical median of them (the middle one of the sorted values for an odd
\* count, the mean of the two middle ones for an even count), and min and max
\* are the smallest and the largest of them.  In every comparison table each
\* row behind the baseline reports (median - baseline) / baseline * 100,
\* printed to two decimals.  For A = [100, 104] and B = [110, 108] on insert
\* p50 the table reads A, median 102, baseline, then B, median 109, +6.86%.
C11_MedianAndDeviation ==
  /\ \A e \in 1..Len(aggregated) : \A m \in Range(MetricKeys) :
       LET values == MetricValues(aggregated[e].k, m)
           n == Len(values)
           st == aggregated[e].v.stats[m]
       IN  /\ st.values = values
           /\ n % 2 = 1 => st.median_x2 = 2 * KthSmallest(values, (n + 1) \div 2)
           /\ n % 2 = 0 => st.median_x2 = KthSmallest(values, n \div 2)
                                           + KthSmallest(values, n \div 2 + 1)
           /\ st.min \in Range(values)
           /\ st.max \in Range(values)
           /\ \A i \in 1..n : st.min <= values[i] /\ values[i] <= st.max
  /\ \A t \in 1..Len(tables) :
       LET rows == tables[t].rows
           m == tables[t].metric
           b == rows[1].median_x2
       IN  /\ \A i \in 2..Len(rows) :
                /\ rows[i].median_x2 =
                     Lookup(aggregated, rows[i].config).stats[m].median_x2
                /\ 2 * AbsDiff(rows[i].diff_hundredths * b,
                               (rows[i].median_x2 - b) * 10000) <= b
           /\ ( /\ m = [op |-> "insert", pct |-> "p50"]
                /\ Keys(aggregated) = <<"A", "B">>
                /\ MetricValues("A", m) = <<100, 104>>
                /\ MetricValues("B", m) = <<110, 108>> ) =>
                /\ rows[1].config = "A"
                /\ rows[1].median_x2 = 2 * 102
                /\ rows[1].diff_str = "baseline"
                /\ rows[2].config = "B"
                /\ rows[2].median_x2 = 2 * 109
                /\ rows[2].diff_str = "pct"
                /\ rows[2].diff_hundredths = 686

\* The insert p50 table of A = [100, 104] and B = [110, 108].
C11_Witness ==
  /\ Keys(aggregated) = <<"A", "B">>
  /\ Len(tables) >= 2
  /\ tables[2].metric = [op |-> "insert", pct |-> "p50"]
  /\ aggregated[1].v.stats[tables[2].metric].values = <<100, 104>>
  /\ aggregated[2].v.stats[tables[2].metric].values = <<110, 108>>
  /\ tables[2].rows[2].config = "B"
  /\ tables[2].rows[2].diff_hundredths = 686

\* C12: in every printed comparison table the first row, and no other, is
\* flagged as the baseline and reads "baseline" where the others read a
\* signed percentage; a later row whose median equals the baseline's reads a
\* percentage too, +0.00%.
C12_OneBaselineRow ==
  \A t \in 1..Len(tables) :
    LET rows == tables[t].rows
    IN  /\ Len(rows) >= 1
        /\ Cardinality({i \in 1..Len(rows) : rows[i].marker}) = 1
        /\ Cardinality({i \in 1..Len(rows) : rows[i].diff_str = "baseline"}) = 1
        /\ rows[1].marker
        /\ rows[1].diff_str = "baseline"
        /\ rows[1].config = tables[t].winner
        /\ \A i \in 2..Len(rows) :
             /\ ~rows[i].marker
             /\ rows[i].diff_str = "pct"
             /\ rows[i].median_x2 = rows[1].median_x2 => rows[i].diff_hundredths = 0

\* A table whose second row has the baseline's median.
C12_Witness ==
  \E t \in 1..Len(tables) :
    LET rows == tables[t].rows
    IN  /\ Len(rows) >= 2
        /\ rows[2].median_x2 = rows[1].median_x2
        /\ rows[2].diff_str = "pct"
        /\ rows[2].diff_hundredths = 0
        /\ ~rows[2].marker

\* How many times a name stands in the caller's configuration list.
Occurrences(c) == Cardinality({i \in 1..NumConfigs : args.configs[i] = c})

\* C13: the result mapping has one key per distinct name.  When
\* interleaved_benchmark has returned from N passes, the sequence of a name
\* listed m times has length N*m (N for a name listed once), and the
\* aggregate record of that name reports passes = N*m.
C13_DuplicateNamesShareOneKey ==
  /\ \A i, j \in 1..Len(results) : results[i].k = results[j].k => i = j
  /\ SamplingReturned =>
       /\ Range(Keys(results)) = Range(args.configs)
       /\ \A c \in Range(args.configs) :
            Len(Lookup(results, c)) = args.passes * Occurrences(c)
  /\ \A e \in 1..Len(aggregated) :
       aggregated[e].v.passes = args.passes * Occurrences(aggregated[e].k)

\* An aggregated run of the list A, B, A over three passes: A reports six
\* passes, B three.
C13_Witness ==
  /\ args.configs = <<"A", "B", "A">>
  /\ args.passes = 3
  /\ Keys(aggregated) = <<"A", "B">>
  /\ Lookup(aggregated, "A").passes = 6
  /\ Lookup(aggregated, "B").passes = 3
  /\ Len(Lookup(results, "A")) = 6

\* The configurations of the result mapping that have at least one document,
\* in the mapping's order.
NonEmptyKeys == SelectSeq(Keys(results), LAMBDA c : Lookup(results, c) # <<>>)

\* Every document of the result mapping has the fields aggregation reads.
TrackedFieldsPresent ==
  \A i \in 1..Len(results) : FirstMissing(results[i].v) = <<0, 0>>

\* C14: for a result mapping whose documents are well-formed, aggregation
\* does not fail; a configuration with an empty sequence has no aggregate
\* record and stands in no row of any comparison table, while every
\* configuration with a non-empty sequence has its record, computed from its
\* own documents, and a row in every table.  Ranking stops only for a metric
\* whose least median is zero, and with a non-empty configuration left all
\* six metrics are ranked and no list is indexed out of range.
C14_EmptySequenceIsSkipped ==
  (pc # "aggregate" /\ TrackedFieldsPresent) =>
    /\ error # "missing_key"
    /\ Keys(aggregated) = NonEmptyKeys
    /\ \A e \in 1..Len(aggregated) :
         /\ aggregated[e].v.passes = Len(Lookup(results, aggregated[e].k))
         /\ \A m \in Range(MetricKeys) :
              aggregated[e].v.stats[m].values = MetricValues(aggregated[e].k, m)
    /\ \A t \in 1..Len(tables) :
         /\ Len(tables[t].rows) = Len(NonEmptyKeys)
         /\ {tables[t].rows[i].config : i \in 1..Len(tables[t].rows)}
              = Range(NonEmptyKeys)
    /\ error = "zero_baseline" =>
         /\ NonEmptyKeys # <<>>
         /\ LeastMedian_x2(MetricKeys[table_num + 1]) = 0
    /\ NonEmptyKeys # <<>> =>
         /\ error # "index_error"
         /\ pc \in {"details", "export_csv", "export_json", "done"} => Len(tables) = 6

\* A finished run over a mapping of two configurations, the first of them
\* without a document: six tables of one row, the second configuration's.
C14_Witness ==
  /\ pc = "done"
  /\ Len(results) = 2
  /\ results[1].v = <<>>
  /\ Len(results[2].v) = 2
  /\ Keys(aggregated) = <<results[2].k>>
  /\ Len(tables) = 6
  /\ \A t \in 1..6 : Len(tables[t].rows) = 1 /\ tables[t].rows[1].config = results[2].k

\* Sequence s is an initial part of sequence t.
IsPrefix(s, t) == Len(s) <= Len(t) /\ \A i \in 1..Len(s) : s[i] = t[i]

\* The invocations that exited zero with parsable output.
Succeeded ==
  {i \in 1..Len(returned) :
     returned[i].outcome.returncode = 0 /\ returned[i].outcome.stdout.json}

\* Every configuration's sequence of the result mapping is kept, in place and
\* under the same key, as an initial part of its sequence in the next state.
AppendOnly ==
  /\ Len(results) <= Len(results')
  /\ \A i \in 1..Len(results) :
       /\ results'[i].k = results[i].k
       /\ IsPrefix(results[i].v, results'[i].v)

\* C15: at most one external invocation is outstanding; while invocation
\* j+1 is outstanding the j invocations before it have all returned with
\* success and their j documents are stored; an invocation is issued only in
\* a state with none outstanding; the result mapping is only ever appended
\* to; and the number of stored documents is always the number of
\* invocations that returned with success.
C15_OneInvocationAtATime ==
  /\ [](/\ Len(inflight) <= 1
        /\ Len(calls) = Len(returned) + Len(inflight)
        /\ inflight # <<>> =>
             /\ inflight[1] = calls[Len(calls)]
             /\ Cardinality(Succeeded) = Len(returned)
             /\ StoredDocs = Len(calls) - 1
        /\ StoredDocs = Cardinality(Succeeded))
  /\ [][/\ AppendOnly
        /\ calls' # calls =>
             /\ inflight = <<>>
             /\ Len(inflight') = 1
             /\ calls' = Append(calls, inflight'[1])
        /\ StoredDocs' # StoredDocs =>
             /\ inflight # <<>>
             /\ inflight' = <<>>
             /\ StoredDocs' = StoredDocs + 1
             /\ Lookup(results', inflight[1].config) =
                  Append(IF HasKey(results, inflight[1].config)
                         THEN Lookup(results, inflight[1].config) ELSE <<>>,
                         returned'[Len(returned')].outcome.stdout.value)]_vars

\* The fifth invocation of a run is outstanding, the four before it are
\* stored.
C15_Witness ==
  /\ pc = "sampling"
  /\ Len(inflight) = 1
  /\ Len(calls) = 5
  /\ Len(returned) = 4
  /\ StoredDocs = 4
  /\ inflight[1].pass_num = 2

\* The median of insert p99_9 a CSV row's configuration has in the aggregate.
InsertTailMedian_x2(row) ==
  Lookup(aggregated, row.config).stats[[op |-> "insert", pct |-> "p99_9"]].median_x2

\* C16 as claimed: the written CSV file has one row per aggregated
\* configuration, in ascending order of the insert p99_9 median, and every
\* row carries the configuration's passes and median, min, max and stdev of
\* p50 and of p99_9 of insert, find and erase: six groups of four, 24
\* statistic columns.
C16_CsvCarriesBothPercentiles ==
  csv_written =>
    /\ Len(csv_file) = Len(aggregated)
    /\ \A e \in 1..Len(aggregated) :
         Cardinality({i \in 1..Len(csv_file) : csv_file[i].config = aggregated[e].k}) = 1
    /\ \A i, j \in 1..Len(csv_file) :
         i < j => InsertTailMedian_x2(csv_file[i]) <= InsertTailMedian_x2(csv_file[j])
    /\ \A i \in 1..Len(csv_file) :
         LET row == csv_file[i]
             st == Lookup(aggregated, row.config).stats
         IN  /\ row.passes = Lookup(aggregated, row.config).passes
             /\ 4 * Len(row.columns) = 24
             /\ \A m \in Range(MetricKeys) :
                  \E c \in 1..Len(row.columns) :
                    /\ CsvColumns[c] = m
                    /\ row.columns[c] =
                         [median_x2 |-> st[m].median_x2, min |-> st[m].min,
                          max |-> st[m].max, stdev_sq |-> st[m].stdev_sq]

\* The p99_9 metric of an operation.
TailMetric(operation) == [op |-> operation, pct |-> "p99_9"]

\* C17: the d-th detailed report is about the d-th operation and about the
\* configuration whose p99_9 median for that operation is the least of all
\* aggregated configurations, the earliest in the caller's list among equal
\* ones: the baseline of that operation's p99_9 comparison table.  Its ladder
\* is, with all six fields p0..p99_99, the operation's entry of the document
\* at 0-indexed position floor(len/2) of that configuration's result
\* sequence, whatever the documents' values; for a configuration listed once
\* that is the document its invocation produced in pass floor(N/2)+1.
C17_DetailedReportOfMedianRun ==
  \A d \in 1..Len(details) :
    LET rep == details[d]
        m == TailMetric(Ops[d])
        c == rep.config
        seq == Lookup(results, c)
    IN  /\ rep.operation = Ops[d]
        /\ HasKey(aggregated, c)
        /\ \A e \in 1..Len(aggregated) :
             \/ Lookup(aggregated, c).stats[m].median_x2
                  < aggregated[e].v.stats[m].median_x2
             \/ /\ Lookup(aggregated, c).stats[m].median_x2
                     = aggregated[e].v.stats[m].median_x2
                /\ InputIndex(c) <= InputIndex(aggregated[e].k)
        /\ \E t \in 1..Len(tables) : tables[t].metric = m
        /\ \A t \in 1..Len(tables) :
             tables[t].metric = m =>
               /\ tables[t].winner = c
               /\ tables[t].rows[1].config = c
        /\ DOMAIN rep.ladder = Range(LadderOrder)
        /\ rep.ladder = seq[Len(seq) \div 2 + 1].performance[Ops[d]]
        /\ Occurrences(c) = 1 =>
             rep.ladder = ProducedIn(args.passes \div 2 + 1, c).performance[Ops[d]]

\* A report over three passes whose ladder comes from the second pass, a
\* document other than the first and the third, with a p99_9 that is not the
\* configuration's p99_9 median.
C17_Witness ==
  \E d \in 1..Len(details) :
    LET c == details[d].config
        seq == Lookup(results, c)
    IN  /\ args.passes = 3
        /\ Len(seq) = 3
        /\ seq[2] # seq[1]
        /\ seq[2] # seq[3]
        /\ details[d].ladder = seq[2].performance[Ops[d]]
        /\ 2 * details[d].ladder.p99_9
             # Lookup(aggregated, c).stats[TailMetric(Ops[d])].median_x2

\* C18: a run of main that has come to aggregation was given at least one
\* configuration and at least two passes, and its result mapping holds a
\* non-empty sequence for every supplied configuration and no empty sequence
\* at all, so aggregation never takes its empty-sequence branch.  Unless
\* aggregation stopped on a missing field, the aggregate is non-empty and has
\* exactly the supplied names; every ranking call made has found
\* configurations to rank, and print_detailed_percentiles has never indexed
\* an empty list.
C18_NoEmptySequenceThroughMain ==
  /\ SamplingReturned =>
       /\ NumConfigs >= 1
       /\ args.passes >= 2
       /\ \A c \in Range(args.configs) :
            HasKey(results, c) /\ Lookup(results, c) # <<>>
       /\ \A i \in 1..Len(results) : results[i].v # <<>>
       /\ (pc # "aggregate" /\ error # "missing_key") =>
            /\ aggregated # <<>>
            /\ Range(Keys(aggregated)) = Range(args.configs)
            /\ Keys(aggregated) = Keys(results)
  /\ Len(tables) = table_num
  /\ \A t \in 1..Len(tables) : tables[t].rows # <<>>
  /\ Len(details) = detail_num
  /\ error # "index_error"

\* A run of three configurations that has printed its six tables and the
\* first detailed report.
C18_Witness ==
  /\ pc = "details"
  /\ NumConfigs = 3
  /\ Len(aggregated) = 3
  /\ Len(tables) = 6
  /\ Len(details) = 1

\* Some metric's least median over a non-empty aggregate is zero.
SomeZeroBaseline ==
  /\ aggregated # <<>>
  /\ \E j \in 1..Len(MetricKeys) : LeastMedian_x2(MetricKeys[j]) = 0

\* C19: an export file exists only in a run that has printed all six
\* comparison tables and all three detailed reports, the CSV file not before
\* main is past the reports and the JSON file only at the very end, written
\* in a step of its own after the CSV step.  A run that has stopped on an
\* error has exit status 1 and no export file, whether the error was a
\* failed invocation, a missing field at aggregation or a zero baseline; a
\* run whose aggregate has a zero least median in any metric never has one.
\* A run stopped by a zero baseline had every invocation succeed, holds the
\* complete raw results, and has printed exactly the tables of the metrics
\* ranked before the failing one.
C19_ExportsComeLast ==
  /\ [](/\ csv_written =>
             /\ pc \in {"export_json", "done"}
             /\ Len(tables) = Len(MetricKeys)
             /\ Len(details) = Len(Ops)
        /\ json_written =>
             /\ pc = "done"
             /\ Len(tables) = Len(MetricKeys)
             /\ Len(details) = Len(Ops)
             /\ json_file = results
        /\ pc = "exited" =>
             /\ exit_status = 1
             /\ error \in {"binary_not_found", "too_few_passes", "exit_code",
                            "invalid_json", "missing_key", "zero_baseline"}
             /\ ~csv_written /\ csv_file = <<>>
             /\ ~json_written /\ json_file = <<>>
        /\ SomeZeroBaseline => (~csv_written /\ ~json_written /\ pc # "done")
        /\ (pc = "exited" /\ error = "zero_baseline") =>
             /\ Len(returned) = args.passes * NumConfigs
             /\ Cardinality(Succeeded) = Len(returned)
             /\ StoredDocs = args.passes * NumConfigs
             /\ aggregated # <<>>
             /\ LeastMedian_x2(MetricKeys[table_num + 1]) = 0
             /\ Len(tables) = table_num
             /\ \A t \in 1..table_num :
                  /\ tables[t].metric = MetricKeys[t]
                  /\ LeastMedian_x2(MetricKeys[t]) # 0
             /\ details = <<>>)
  /\ [][/\ csv_written' # csv_written =>
             (pc = "export_csv" /\ pc' = "export_json" /\ ~json_written')
        /\ json_written' # json_written =>
             (pc = "export_json" /\ pc' = "done" /\ csv_written' = csv_written)]_vars

\* A finished run that wrote both files after its six tables and three
\* reports.
C19_Witness ==
  /\ pc = "done"
  /\ exit_status = 0
  /\ csv_written
  /\ json_written
  /\ Len(csv_file) = Len(aggregated)
  /\ json_file = results
  /\ Len(tables) = 6
  /\ Len(details) = 3

====
